---- MODULE Spec2Model ----
(***************************************************************************)
(* Global knowledge base service of the regulatory RAG application         *)
(* (api/services/global_kb_service.py) together with the HTTP handlers     *)
(* that drive it (api/routers/documents.py, api/routers/chat.py), the      *)
(* session registry (api/services/session_service.py) and the query path   *)
(* (aimakerspace/rag_pipeline.py, aimakerspace/regulatory_rag_enhancer.py). *)
(*                                                                         *)
(* The service runs on one asyncio event loop: a handler runs atomically   *)
(* from one await that really suspends (a call of the embedding service)   *)
(* to the next.  Each action below is one such segment.                    *)
(***************************************************************************)
EXTENDS Integers, Sequences, FiniteSets, TLC

(* ------------------------------- bounds -------------------------------- *)
\* cap on the length of chunked_documents (uploads that would pass it are not started)
MaxChunks == 4
\* number of requests the model lets the server accept
MaxRequests == 3
\* number of sessions the model lets the registry hold
MaxSessions == 2
\* largest number of results a query asks for
MaxK == 2
\* largest number of characters of a generated text
MaxText == 7
\* largest number of batches a list of texts to embed is split into
MaxBatches == 9
\* largest number of pages of a PDF file
MaxPages == 3
\* largest number of sheets of a workbook
MaxSheets == 2

Procs == {"h1", "h2"}
HandlerOrder == [h1 |-> 1, h2 |-> 2]
Keys == {"k1", "k2"}
NoKey == "none"
\* a request without session id (None or ""), and one with an id no session has
NoSessionId == 0
UnknownSessionId == -1
PreloadedFile == "P.pdf"
Filenames == {PreloadedFile, "f.pdf", "g.pdf"}
\* a VectorDatabase is named after the handler that constructed it while that
\* handler still holds it, and "kb" once only the knowledge base refers to it
Slots == Procs \cup {"kb"}
NoSlot == "none"

(* ------------------------------ data model ----------------------------- *)
\* metadata written for a chunk of the preloaded corpus by the preprocessing pass
PreloadedMetadata(filename) ==
    [filename |-> filename, source |-> "global_kb",
     is_original |-> "absent", chunk_index |-> -1]

\* the embedded snapshot returned by get_knowledge_base()
KB_CHUNKS ==
    << [text |-> "t1", metadata |-> PreloadedMetadata(PreloadedFile)] >>

\* an upload that keeps the filename the parser put into doc.metadata (the
\* name of the temporary file) instead of the name of the upload
UploadMetadata_ParserName(filename, i) ==
    [filename |-> "upload.tmp", source |-> "user_uploaded",
     is_original |-> "false", chunk_index |-> i]

\* metadata.update({...}) of add_document_to_global_kb
UploadMetadata(filename, i) ==
    [filename |-> filename, source |-> "user_uploaded",
     is_original |-> "false", chunk_index |-> i]

\* a vector is determined by the API key (embedding backend) and the text
Embedding(key, text) == [key |-> key, text |-> text]

\* VectorDatabase(embedding_model=...): an empty text-keyed store
NewVectorDatabase(key) == [key |-> key, entries |-> << >>]
NoVdb == [key |-> "none", entries |-> << >>]

\* VectorDatabase.insert: text-keyed, a present text is overwritten
VdbInsert(entries, text, vector, metadata) ==
    [t \in (DOMAIN entries) \cup {text} |->
        IF t = text THEN [vector |-> vector, metadata |-> metadata]
        ELSE entries[t]]

\* a bind that re-tags every chunk as coming from the global corpus while it
\* inserts it
RECURSIVE InsertAll_Retagged(_, _, _)
InsertAll_Retagged(entries, chunks, key) ==
    IF chunks = << >> THEN entries
    ELSE InsertAll_Retagged(
             VdbInsert(entries, Head(chunks).text,
                       Embedding(key, Head(chunks).text),
                       [Head(chunks).metadata EXCEPT !.source = "global_knowledge_base"]),
             Tail(chunks), key)

\* the loop "for chunk, embedding in zip(chunks, embeddings): vector_db.insert"
RECURSIVE InsertAll(_, _, _)
InsertAll(entries, chunks, key) ==
    IF chunks = << >> THEN entries
    ELSE InsertAll(VdbInsert(entries, Head(chunks).text,
                             Embedding(key, Head(chunks).text),
                             Head(chunks).metadata),
                   Tail(chunks), key)

Range(seq) == {seq[i] : i \in DOMAIN seq}

\* an upload that appends its filename without looking at the list
TrackUpload_Unchecked(uploaded, filename) == Append(uploaded, filename)

\* lines 329-330: "if filename not in user_uploaded_documents: append"
TrackUpload(uploaded, filename) ==
    IF filename \in Range(uploaded) THEN uploaded ELSE Append(uploaded, filename)

\* list.remove(x): drops the first occurrence
RECURSIVE ListRemove(_, _)
ListRemove(seq, x) ==
    IF seq = << >> THEN << >>
    ELSE IF Head(seq) = x THEN Tail(seq)
    ELSE << Head(seq) >> \o ListRemove(Tail(seq), x)

\* a removal that drops every user upload instead of the named file
KeptTexts_AllUploads(entries, filename) ==
    {t \in DOMAIN entries : entries[t].metadata.source # "user_uploaded"}

\* the filter of remove_document_from_global_kb over vector_db.vectors
KeptTexts(entries, filename) ==
    {t \in DOMAIN entries : entries[t].metadata.filename # filename}

RemoveFromVectors(entries, filename) ==
    [t \in KeptTexts(entries, filename) |-> entries[t]]

\* the filter of remove_document_from_global_kb over chunked_documents
KeepChunk(chunk, filename) == chunk.metadata.filename # filename

RECURSIVE RemoveFromChunks(_, _)
RemoveFromChunks(chunks, filename) ==
    IF chunks = << >> THEN << >>
    ELSE IF KeepChunk(Head(chunks), filename)
         THEN << Head(chunks) >> \o RemoveFromChunks(Tail(chunks), filename)
         ELSE RemoveFromChunks(Tail(chunks), filename)

\* number of entries the removal loop counts in chunks_removed
CountRemoved(entries, filename) ==
    Cardinality((DOMAIN entries) \ KeptTexts(entries, filename))

\* document_names of _load_from_preprocessed_data, as a list without repeats
RECURSIVE DocumentNames(_)
DocumentNames(chunks) ==
    IF chunks = << >> THEN << >>
    ELSE LET rest == DocumentNames(Tail(chunks))
             name == Head(chunks).metadata.filename
         IN IF name \in Range(rest) THEN rest ELSE << name >> \o rest

(* ------------------------------ sessions ------------------------------- *)
\* the dict get_or_create_session stores for a new session; the embedding
\* model of its VectorDatabase is the default one when no key is given
NewSession(api_key, now) ==
    [embedding_key |-> IF api_key # NoKey THEN api_key ELSE "default",
     documents |-> << >>, created_at |-> now, api_key |-> api_key,
     has_global_kb |-> FALSE]

\* a rotation that builds the session anew
RotateKey_Recreate(session, api_key) == NewSession(api_key, 0)

\* lines 27-30: a new EmbeddingModel on the session's database, the key stored
RotateKey(session, api_key) ==
    [session EXCEPT !.embedding_key = api_key, !.api_key = api_key]

\* SessionService.get_or_create_session: the registry afterwards and the id
\* returned; a new session gets the next id no session ever had (uuid4)
GetOrCreateSession(sessions, session_id, api_key, now) ==
    IF session_id # NoSessionId /\ session_id \in DOMAIN sessions
    THEN [sessions |->
             IF api_key # NoKey /\ sessions[session_id].embedding_key # api_key
             THEN [sessions EXCEPT ![session_id] = RotateKey(@, api_key)]
             ELSE sessions,
          session_id |-> session_id]
    ELSE [sessions |-> Append(sessions, NewSession(api_key, now)),
          session_id |-> Len(sessions) + 1]

\* SessionService.list_sessions
ListSessions(sessions) ==
    [total_sessions |-> Len(sessions),
     sessions |-> [sid \in DOMAIN sessions |->
                      [session_id |-> sid,
                       document_count |-> Len(sessions[sid].documents),
                       created_at |-> sessions[sid].created_at,
                       has_global_kb |-> sessions[sid].has_global_kb]]]

(* ------------------------------ query path ----------------------------- *)
\* the Index a query runs on, in insertion order; the number of regulatory
\* keywords that occur in a text is given with the chunk
Corpus ==
    << [text |-> "b1", content_hits |-> 1,
        metadata |-> [filename |-> "Basel_III.pdf", doc_type |-> "pdf",
                      regulatory_type |-> "basel_document", sheet_name |-> ""]],
       [text |-> "c1", content_hits |-> 1,
        metadata |-> [filename |-> "corep.xlsx", doc_type |-> "excel",
                      regulatory_type |-> "corep_template", sheet_name |-> "corep_c_01"]],
       [text |-> "n1", content_hits |-> 0,
        metadata |-> [filename |-> "notes.pdf", doc_type |-> "pdf",
                      regulatory_type |-> "", sheet_name |-> ""]],
       [text |-> "b2", content_hits |-> 0,
        metadata |-> [filename |-> "Basel_III.pdf", doc_type |-> "pdf",
                      regulatory_type |-> "", sheet_name |-> ""]] >>

\* cosine similarities, in hundredths
Scores == {60, 80}
DocTypes == {"pdf", "excel"}
PriorityTokens == {"basel", "Basel"}

\* the optional list parameters of a request: None, or a list (maybe empty)
NoList == [given |-> FALSE, items |-> {}]
ListsOver(S) == {NoList} \cup {[given |-> TRUE, items |-> x] : x \in SUBSET S}
\* "if doc_types:" - a list that is given and not empty
Truthy(list) == list.given /\ list.items # {}

\* str.lower() on the filenames of the corpus
Lower(filename) ==
    IF filename = "Basel_III.pdf" THEN "basel_iii.pdf" ELSE filename

\* "token in string" on the tokens and filenames of the model
Substring(token, string) ==
    << token, string >> \in {<< "basel", "basel_iii.pdf" >>,
                             << "Basel", "Basel_III.pdf" >>}

\* any(priority in filename.lower() for priority in priority_sources)
PriorityMatch(filename, tokens) ==
    \E t \in tokens : Substring(t, Lower(filename))

Min(a, b) == IF a <= b THEN a ELSE b

\* seq[:k]
Take(seq, k) == SubSeq(seq, 1, Min(k, Len(seq)))

\* VectorDatabase.search: the k best entries by cosine, best first, ties in
\* insertion order, together with what search_documents adds (the metadata)
RECURSIVE InsertByScore(_, _)
InsertByScore(sorted, x) ==
    IF sorted = << >> THEN << x >>
    ELSE IF Head(sorted).score >= x.score
         THEN << Head(sorted) >> \o InsertByScore(Tail(sorted), x)
         ELSE << x >> \o sorted

RECURSIVE SortByScore(_)
SortByScore(seq) ==
    IF seq = << >> THEN << >>
    ELSE InsertByScore(SortByScore(SubSeq(seq, 1, Len(seq) - 1)), seq[Len(seq)])

VdbSearch(cosine, k) ==
    Take(SortByScore([i \in DOMAIN cosine |->
                         [text |-> Corpus[i].text, score |-> cosine[i],
                          content_hits |-> Corpus[i].content_hits,
                          metadata |-> Corpus[i].metadata]]), k)

\* any(term in sheet_name for term in ["corep", "finrep", "capital", "liquidity"])
RegulatorySheet(sheet_name) == sheet_name \in {"corep_c_01"}

\* _calculate_regulatory_relevance, in tenths: 0.1 per keyword in the
\* content, 0.2 per keyword in the query, the bonus of the regulatory type,
\* the bonus of an Excel sheet with a regulatory name, capped at 1.0
RegulatoryRelevance(result, query_hits) ==
    LET m == result.metadata
        type_bonus ==
            IF m.regulatory_type \in {"corep_template", "finrep_template", "basel_document"}
            THEN 3
            ELSE IF m.regulatory_type \in {"regulatory_calculation", "data_lineage"}
                 THEN 2 ELSE 0
        sheet_bonus == IF m.doc_type = "excel" /\ RegulatorySheet(m.sheet_name)
                       THEN 2 ELSE 0
    IN Min(result.content_hits + 2 * query_hits + type_bonus + sheet_bonus, 10)

\* the sort key score * 0.7 + regulatory_score * 0.3, in thousandths
Final(r) == 7 * r.score + 30 * r.regulatory_score

\* a sort that puts the lowest key first
RECURSIVE InsertByFinal_Ascending(_, _)
InsertByFinal_Ascending(sorted, x) ==
    IF sorted = << >> THEN << x >>
    ELSE IF Final(Head(sorted)) <= Final(x)
         THEN << Head(sorted) >> \o InsertByFinal_Ascending(Tail(sorted), x)
         ELSE << x >> \o sorted

\* list.sort(key=..., reverse=True): stable, highest key first
RECURSIVE InsertByFinal(_, _)
InsertByFinal(sorted, x) ==
    IF sorted = << >> THEN << x >>
    ELSE IF Final(Head(sorted)) >= Final(x)
         THEN << Head(sorted) >> \o InsertByFinal(Tail(sorted), x)
         ELSE << x >> \o sorted

RECURSIVE SortByFinal(_)
SortByFinal(seq) ==
    IF seq = << >> THEN << >>
    ELSE InsertByFinal(SortByFinal(SubSeq(seq, 1, Len(seq) - 1)), seq[Len(seq)])

\* the body of the loop of enhanced_search for one base result: the result
\* with its regulatory score and, for a priority source, its boosted score
Enhanced(result, query_hits, priority_sources) ==
    [text |-> result.text, content_hits |-> result.content_hits,
     metadata |-> result.metadata,
     regulatory_score |-> RegulatoryRelevance(result, query_hits),
     score |-> IF Truthy(priority_sources)
                  /\ PriorityMatch(result.metadata.filename, priority_sources.items)
               THEN (result.score * 3) \div 2 ELSE result.score]

\* "if doc_types: ... if doc_type not in doc_types: continue"
Dropped(result, doc_types) ==
    Truthy(doc_types) /\ result.metadata.doc_type \notin doc_types.items

\* the loop of enhanced_search: enhanced_results before the sort
RECURSIVE EnhanceAll(_, _, _, _)
EnhanceAll(base_results, query_hits, doc_types, priority_sources) ==
    IF base_results = << >> THEN << >>
    ELSE LET rest == EnhanceAll(Tail(base_results), query_hits, doc_types,
                                priority_sources)
         IN IF Dropped(Head(base_results), doc_types) THEN rest
            ELSE << Enhanced(Head(base_results), query_hits, priority_sources) >>
                     \o rest

\* a search that applies the whitelist to the k results it has ranked
EnhancedSearch_FilterLast(base_results, k, query_hits, doc_types, priority_sources) ==
    SelectSeq(Take(SortByFinal(EnhanceAll(base_results, query_hits, NoList,
                                          priority_sources)), k),
              LAMBDA r : ~Dropped(r, doc_types))

\* enhanced_search after the base search: loop, sort, enhanced_results[:k]
EnhancedSearch(base_results, k, query_hits, doc_types, priority_sources) ==
    Take(SortByFinal(EnhanceAll(base_results, query_hits, doc_types,
                                priority_sources)), k)

\* "if not search_results" taken to be false always
NoResults_Ignored(search_results) == FALSE

\* "if not search_results:" of RAGPipeline.run and run_enhanced_rag
NoResults(search_results) == search_results = << >>

\* the filenames of the results, list(set(sources))
SourcesOf(search_results) ==
    {search_results[i].metadata.filename : i \in DOMAIN search_results}

NoResult == [response |-> "none", sources |-> {}, fallback |-> FALSE,
             regulatory_context |-> FALSE, error |-> FALSE]

\* no query run has been started
NoRag == [pc |-> "none", path |-> "none", error |-> "none", k |-> 0,
          query_hits |-> 0, doc_types |-> NoList, priority_sources |-> NoList,
          cosine |-> << >>, requested |-> 0, base_results |-> << >>,
          search_results |-> << >>, calls |-> << >>, result |-> NoResult,
          failure |-> "none"]

(* --------------------------- streamed responses ------------------------ *)
\* the characters of a generated text: a letter, the blank and the newline
Chars == {"a", " ", "\n"}
Whitespace == {" ", "\n"}
Texts == UNION {[1..n -> Chars] : n \in 0..MaxText}
\* message.content of a completion without text (None)
NoText == << "None" >>

\* sep.join(parts)
RECURSIVE Join(_, _)
Join(parts, sep) ==
    IF parts = << >> THEN << >>
    ELSE IF Len(parts) = 1 THEN parts[1]
    ELSE parts[1] \o sep \o Join(Tail(parts), sep)

ParagraphBreak == << "\n", "\n" >>

\* the canned messages, one string per line of the message
MessageLines(response) ==
    CASE response = "no_info" ->
           << << "N1" >>, << "N2" >>, << "N3", "N4", "N5" >>,
              << "N6", "N7", "N8", "N9" >>, << "N10", "N11" >> >>
      [] response = "unable_to_generate" ->
           << << "U1" >>, << "U2" >>, << "U3", "U4", "U5", "U6" >>, << "U7" >> >>
      [] response = "system_issue" ->
           << << "S1" >>, << "S2" >>, << "S3", "S4", "S5", "S6" >>,
              << "S7", "S8" >>, << "S9" >> >>
      [] response = "no_regulatory_documents" -> << << "R1" >> >>

Message(response) ==
    LET lines == MessageLines(response)
    IN Join([i \in DOMAIN lines |->
                Join([j \in DOMAIN lines[i] |-> << lines[i][j] >>], << "\n" >>)],
            ParagraphBreak)

\* the messages that report a failure to the user
ErrorMessages == {"unable_to_generate", "system_issue"}

\* text.split('\n\n'): cut at each break found from left to right
RECURSIVE Split(_)
Split(text) ==
    LET breaks == {i \in 1..(Len(text) - 1) :
                      text[i] = "\n" /\ text[i + 1] = "\n"}
    IN IF breaks = {} THEN << text >>
       ELSE LET i == CHOOSE b \in breaks : \A c \in breaks : b <= c
            IN << SubSeq(text, 1, i - 1) >>
                   \o Split(SubSeq(text, i + 2, Len(text)))

\* paragraph.strip()
RECURSIVE Strip(_)
Strip(paragraph) ==
    IF paragraph = << >> THEN << >>
    ELSE IF Head(paragraph) \in Whitespace THEN Strip(Tail(paragraph))
    ELSE IF paragraph[Len(paragraph)] \in Whitespace
         THEN Strip(SubSeq(paragraph, 1, Len(paragraph) - 1))
    ELSE paragraph

\* only the empty paragraph counts as blank
Blank_EmptyOnly(paragraph) == paragraph = << >>

\* "if paragraph.strip():" is false
Blank(paragraph) == Strip(paragraph) = << >>

\* f"{paragraph.strip()}\n\n"
Item(paragraph) == Strip(paragraph) \o ParagraphBreak

\* f"Error: {str(e)}\n\n"
ErrorItem == << "Error" >> \o ParagraphBreak

\* no response is being streamed
NoStream == [pc |-> "none", path |-> "none", response |-> "none",
             failure |-> "none", calls |-> << >>, text |-> << >>,
             paragraphs |-> << >>, i |-> 0, out |-> << >>]

(* --------------------------- batched embedding ------------------------- *)
\* batch_size of async_get_embeddings
batch_size == 1024

\* the lengths of the lists the model embeds: around the batch size and its
\* multiples, up to one text more than MaxBatches - 1 full batches
TextCounts ==
    {0, 1, 2} \cup {b * batch_size + d : b \in {1, 2, MaxBatches - 1}, d \in {-1, 0, 1}}

\* the list of n texts the model embeds: the texts repeat with period 3
ListOfText(n) == [i \in 1..n |-> (i - 1) % 3]

\* range(0, len(list_of_text), batch_size), in order
BatchStarts(n) ==
    LET starts == {i \in 0..(n - 1) : i % batch_size = 0}
    IN [b \in 1..Cardinality(starts) |-> (b - 1) * batch_size]

\* list_of_text[i:i + batch_size]
Batch(list_of_text, i) ==
    SubSeq(list_of_text, i + 1, Min(i + batch_size, Len(list_of_text)))

\* the data of the response to a request: one embedding per input, in the
\* order of the inputs
ResponseData(batch) == [j \in DOMAIN batch |-> Embedding("k1", batch[j])]

\* results in the order the responses arrive
RecordResult_Arrival(results, b) ==
    LET free == {p \in DOMAIN results : results[p] = 0}
    IN [results EXCEPT ![CHOOSE p \in free : \A q \in free : p <= q] = b]

\* asyncio.gather keeps the result of the b-th awaitable at position b
RecordResult(results, b) == [results EXCEPT ![b] = b]

\* [embedding for batch_result in results for embedding in batch_result]
RECURSIVE Flatten(_)
Flatten(batch_results) ==
    IF batch_results = << >> THEN << >>
    ELSE Head(batch_results) \o Flatten(Tail(batch_results))

\* no call of async_get_embeddings has been made
NoEmb == [pc |-> "none", n |-> 0, batches |-> << >>, issued |-> 0,
          sent |-> << >>, in_flight |-> {}, results |-> << >>,
          overtaken |-> FALSE, returned |-> << >>]

(* ------------------------------- parsers ------------------------------- *)
\* what page.extract_text() gives for the pages of the model; on an
\* unreadable page it raises
Unreadable == "unreadable"
PageTexts == {"A", " B ", "", " ", Unreadable}
None == "None"

\* text.strip() on the texts of the model
StripText(text) ==
    CASE text = " B " -> "B"
      [] text = " " -> ""
      [] OTHER -> text

\* PDFFileLoader._extract_page_text
ExtractPageText(page) ==
    IF page = Unreadable THEN None
    ELSE IF StripText(page) # "" THEN StripText(page) ELSE None

\* PDFFileLoader.load_documents: the texts of the pages, without the None
\* and empty results
LoadDocuments(pages) ==
    SelectSeq([i \in DOMAIN pages |-> ExtractPageText(pages[i])],
              LAMBDA text : text # None /\ text # "")

\* MultiDocumentProcessor._process_pdf on the loaded documents: page_num is
\* the position in the list load_documents returned
ProcessPdf(documents, filename) ==
    SelectSeq([n \in DOMAIN documents |->
                  [content |-> StripText(documents[n]),
                   metadata |-> [filename |-> filename, page_number |-> n,
                                 doc_type |-> "pdf",
                                 total_pages |-> Len(documents),
                                 regulatory_type |-> "basel_document"],
                   doc_type |-> "pdf",
                   source_location |-> << "Page", n >>]],
              LAMBDA chunk : chunk.content # "")

\* the sheets of the model: without cells (openpyxl reports no dimensions,
\* or one row and one column), or with two rows of two cells
SheetNames == {"Sheet1", "C_01"}
NoCells == [max_row |-> 0, max_column |-> 0, values |-> << >>]
OneBlankCell == [max_row |-> 1, max_column |-> 1, values |-> << << None >> >>]
SomeCells == [max_row |-> 2, max_column |-> 2,
              values |-> << << "h1", "h2" >>, << "1", None >> >>]
Worksheets == {NoCells, OneBlankCell, SomeCells}
Workbooks ==
    UNION {{w \in [1..n -> [sheet_name : SheetNames, cells : Worksheets]] :
               \A i \in 1..n, j \in 1..n : w[i].sheet_name = w[j].sheet_name => i = j} :
           n \in 1..MaxSheets}
ExcelFilenames == {"corep.xlsx", "data.xlsx"}

\* the row and column limits of _excel_to_markdown_openpyxl
RowLimit == 50
ColumnLimit == 10

\* _detect_excel_type on the filenames and sheet names of the model: only
\* "corep.xlsx" holds one of the terms
DetectExcelType(filename, sheet_names) ==
    IF filename = "corep.xlsx" THEN "corep_template" ELSE "regulatory_template"

\* _excel_to_markdown_openpyxl: the lines of the text it returns
ExcelToMarkdown(cells, sheet_name) ==
    LET max_row == Min(cells.max_row, RowLimit)
        max_col == Min(cells.max_column, ColumnLimit)
        value(r, c) == IF cells.values[r][c] = None THEN "" ELSE cells.values[r][c]
        row(r) == << "row", [c \in 1..max_col |-> value(r, c)] >>
    IN IF max_row = 0 \/ max_col = 0
       THEN << << "# Sheet", sheet_name >>, << >>, << "*Empty sheet*" >> >>
       ELSE << << "# Regulatory Template", sheet_name >>, << >>, row(1),
               << "separator", max_col >> >>
               \o [r \in 1..(max_row - 1) |-> row(r + 1)]

\* "if sheet_content.strip():" is false: the text has no line with a character
BlankContent(lines) == \A i \in DOMAIN lines : lines[i] = << >>

\* MultiDocumentProcessor._process_xlsx on the sheets of the workbook
ProcessXlsx(sheets, filename) ==
    LET regulatory_type ==
            DetectExcelType(filename, [i \in DOMAIN sheets |-> sheets[i].sheet_name])
    IN SelectSeq([i \in DOMAIN sheets |->
                     [content |-> ExcelToMarkdown(sheets[i].cells, sheets[i].sheet_name),
                      metadata |-> [filename |-> filename,
                                    sheet_name |-> sheets[i].sheet_name,
                                    doc_type |-> "excel",
                                    regulatory_type |-> regulatory_type,
                                    max_row |-> sheets[i].cells.max_row,
                                    max_column |-> sheets[i].cells.max_column],
                      doc_type |-> "excel",
                      source_location |-> << "Sheet", sheets[i].sheet_name >>]],
                 LAMBDA chunk : ~BlankContent(chunk.content))

\* no file is being parsed
NoParse == [pc |-> "none", doc_type |-> "none", filename |-> "none",
            pages |-> << >>, sheets |-> << >>, chunks |-> << >>]

(* -------------------------------- state -------------------------------- *)
VARIABLES
    kb,     \* GlobalKnowledgeBaseService.global_knowledge_base
    vdbs,   \* the VectorDatabase objects alive on the heap, by slot
    pc,     \* where each request handler is suspended
    req,    \* the request each handler serves
    loc,    \* the local variables of each handler
    accepted, \* number of requests accepted so far
    user_sessions, \* SessionService.user_sessions, by session id
    rag,    \* one run of the query path (RagSpec)
    stream, \* the generator of one streamed response (StreamSpec)
    emb,    \* one call of async_get_embeddings (EmbedSpec)
    parsed  \* one call of process_document (ParseSpec)

vars == << kb, vdbs, pc, req, loc, accepted, user_sessions, rag, stream, emb,
           parsed >>

\* the state of the other specifications
pureVars == << stream, emb, parsed >>

NoReq == [op |-> "none", filename |-> "none", docs |-> << >>, key |-> "none",
          session_id |-> NoSessionId]
NoLoc == [chunks |-> << >>, vector_db |-> NoSlot, i |-> 0, chunks_added |-> 0,
          chunks_removed |-> 0, result |-> "none"]

\* GlobalKnowledgeBaseService.__init__
Init ==
    /\ kb = [vector_db |-> NoSlot, documents |-> << >>,
             user_uploaded_documents |-> << >>, rag_pipeline |-> NoSlot,
             regulatory_enhancer |-> NoSlot, initialized |-> FALSE,
             error |-> "none", chunked_documents |-> << >>,
             embedding_model |-> "none", chat_model |-> "none"]
    /\ vdbs = [s \in Slots |-> NoVdb]
    /\ pc = [p \in Procs |-> "idle"]
    /\ req = [p \in Procs |-> NoReq]
    /\ loc = [p \in Procs |-> NoLoc]
    /\ accepted = 0
    /\ user_sessions = << >>
    /\ rag = NoRag
    /\ stream = NoStream
    /\ emb = NoEmb
    /\ parsed = NoParse

(* ----------------------------- heap helpers ---------------------------- *)
\* the knowledge base keeps a VectorDatabase alive after the frame of the
\* handler that built it is gone
Adopt(k, l) ==
    IF k.vector_db \in Procs /\ l[k.vector_db].vector_db # k.vector_db
    THEN [k EXCEPT !.vector_db = "kb", !.rag_pipeline = "kb",
                   !.regulatory_enhancer = "kb"]
    ELSE k

\* a VectorDatabase nobody references is reclaimed
Collect(v, k, l) ==
    [s \in Slots |->
        IF s = "kb"
        THEN IF Adopt(k, l).vector_db # "kb" THEN NoVdb
             ELSE IF k.vector_db = "kb" THEN v["kb"] ELSE v[k.vector_db]
        ELSE IF l[s].vector_db = s THEN v[s] ELSE NoVdb]

\* the state after a step that leaves k, v, l in the three heap variables
Heap(k, v, l) ==
    /\ kb' = Adopt(k, l)
    /\ vdbs' = Collect(v, k, l)
    /\ loc' = l

\* chunks that the uploads in flight may still append
RECURSIVE PendingAppends(_)
PendingAppends(S) ==
    IF S = {} THEN 0
    ELSE LET p == CHOOSE q \in S : TRUE
             n == IF req[p].op = "add" /\ pc[p] \in {"kb_embed", "add_embed"}
                  THEN Len(req[p].docs) - loc[p].i ELSE 0
         IN n + PendingAppends(S \ {p})

\* the files a client uploads: the chunk texts the parser returns for each
\* (f.pdf shares a passage with the preloaded corpus, g.pdf with f.pdf)
ParsedDocs ==
    [f \in Filenames |-> IF f = "f.pdf" THEN << "t1", "t2" >> ELSE << "t2" >>]

\* rag_chat looks the session up in the registry as it was before the call
\* of get_or_create_session
SessionFound_BeforeRequest(sessions, session_id) ==
    session_id \in DOMAIN user_sessions

\* get_session(session_id) returns a session ("if not session: 404")
SessionFound(sessions, session_id) == session_id \in DOMAIN sessions

\* the session ids a request can carry
SessionInputs == {NoSessionId, UnknownSessionId} \cup DOMAIN user_sessions

\* one client that sends the id of its session once it has one
OneClient == IF user_sessions = << >> THEN {NoSessionId} ELSE {1}

\* the file the clients of SessionSpec upload
SessionFilenames == {"g.pdf"}

\* a request that makes a new session is taken while the registry has room
SessionFits(session_id) ==
    session_id \in DOMAIN user_sessions \/ Len(user_sessions) < MaxSessions

\* a request is served by the first free handler of the pool
FirstIdle(p) ==
    /\ pc[p] = "idle"
    /\ accepted < MaxRequests
    /\ accepted' = accepted + 1
    /\ \A q \in Procs : pc[q] = "idle" => HandlerOrder[p] <= HandlerOrder[q]

(* ------------------------- initialisation of the KB -------------------- *)
\* initialize_global_knowledge_base: load the embedded snapshot, or fall
\* back to user-upload-only mode when loading fails
InitializedKB(k, loaded) ==
    IF k.initialized THEN k
    ELSE IF loaded
         THEN [k EXCEPT !.chunked_documents = KB_CHUNKS,
                        !.documents = DocumentNames(KB_CHUNKS),
                        !.initialized = TRUE]
         ELSE [k EXCEPT !.error = "none", !.initialized = TRUE]

\* POST /initialize-global-kb (also the startup hook)
InitializeGlobalKB(loaded) ==
    /\ ~kb.initialized
    /\ kb' = InitializedKB(kb, loaded)
    /\ UNCHANGED << vdbs, pc, req, loc, accepted, user_sessions, rag, pureVars >>

(* ---------------------- get_global_knowledge_base ---------------------- *)
\* what is left of a handler once the service call has returned: the result
\* (True/False), the counters it logged and, for a chat request, the
\* knowledge base instance the response generator searches together with
\* the chunks it was built from
Response(l, result, keepDb) ==
    [NoLoc EXCEPT !.result = result, !.chunks_added = l.chunks_added,
                  !.chunks_removed = l.chunks_removed,
                  !.vector_db = IF keepDb THEN l.vector_db ELSE NoSlot,
                  !.chunks = IF keepDb THEN l.chunks ELSE << >>]

\* lines 196-220: the guards, the construction of the VectorDatabase and the
\* batch embedding call on the texts of chunked_documents, where it suspends
BeginGetKB(p, r, k) ==
    IF k.error # "none" \/ k.chunked_documents = << >>
    THEN /\ pc' = [pc EXCEPT ![p] = "done"]
         /\ req' = [req EXCEPT ![p] = r]
         /\ Heap(k, vdbs, [loc EXCEPT ![p] = Response(NoLoc, "fail", FALSE)])
    ELSE /\ pc' = [pc EXCEPT ![p] = "kb_embed"]
         /\ req' = [req EXCEPT ![p] = r]
         /\ Heap(k, [vdbs EXCEPT ![p] = NewVectorDatabase(r.key)],
                 [loc EXCEPT ![p] = [NoLoc EXCEPT !.chunks = k.chunked_documents,
                                                  !.vector_db = p]])

\* lines 237-244: self.global_knowledge_base.update({...})
BoundKB(k, slot, key) ==
    [k EXCEPT !.vector_db = slot, !.rag_pipeline = slot,
              !.regulatory_enhancer = slot,
              !.embedding_model = key, !.chat_model = key]

(* ------------------------------ handlers ------------------------------- *)
\* POST /upload-document: add_document_to_global_kb up to its first await
UploadDocument(p, filename, docs, key, session_id) ==
    /\ FirstIdle(p)
    /\ Len(kb.chunked_documents) + PendingAppends(Procs) + Len(docs) <= MaxChunks
    /\ SessionFits(session_id)
    /\ UNCHANGED << rag, pureVars >>
    /\ LET s == GetOrCreateSession(user_sessions, session_id, key, accepted')
           r == [op |-> "add", filename |-> filename, docs |-> docs, key |-> key,
                 session_id |-> s.session_id]
       IN IF ~kb.initialized
          THEN /\ pc' = [pc EXCEPT ![p] = "done"]
               /\ req' = [req EXCEPT ![p] = [r EXCEPT !.session_id = session_id]]
               /\ loc' = [loc EXCEPT ![p] = Response(NoLoc, "fail", FALSE)]
               /\ UNCHANGED << kb, vdbs, user_sessions >>
          ELSE /\ user_sessions' = s.sessions
               /\ BeginGetKB(p, r, kb)

\* DELETE /documents/{filename}: remove_document_from_global_kb up to its await
DeleteDocument(p, filename, key) ==
    /\ FirstIdle(p)
    /\ UNCHANGED << user_sessions, rag, pureVars >>
    /\ LET r == [op |-> "remove", filename |-> filename, docs |-> << >>, key |-> key,
                 session_id |-> NoSessionId]
       IN IF ~kb.initialized \/ filename \notin Range(kb.user_uploaded_documents)
          THEN /\ pc' = [pc EXCEPT ![p] = "done"]
               /\ req' = [req EXCEPT ![p] = r]
               /\ loc' = [loc EXCEPT ![p] = Response(NoLoc, "fail", FALSE)]
               /\ UNCHANGED << kb, vdbs >>
          ELSE BeginGetKB(p, r, kb)

\* POST /rag-chat: the session is looked up or created, then
\* get_global_knowledge_base, initialising the KB on demand
RagChat(p, key, loaded, session_id) ==
    /\ FirstIdle(p)
    /\ kb.initialized => loaded
    /\ SessionFits(session_id)
    /\ UNCHANGED << rag, pureVars >>
    /\ LET s == GetOrCreateSession(user_sessions, session_id, key, accepted')
           r == [op |-> "query", filename |-> "none", docs |-> << >>,
                 key |-> key, session_id |-> s.session_id]
       IN /\ user_sessions' = s.sessions
          /\ IF SessionFound(s.sessions, s.session_id)
             THEN BeginGetKB(p, r, InitializedKB(kb, loaded))
             ELSE /\ pc' = [pc EXCEPT ![p] = "done"]
                  /\ req' = [req EXCEPT ![p] = r]
                  /\ loc' = [loc EXCEPT ![p] = Response(NoLoc, "fail", FALSE)]
                  /\ UNCHANGED << kb, vdbs >>

\* lines 328-342 of add_document_to_global_kb
FinishAdd(p, k, v, l) ==
    /\ pc' = [pc EXCEPT ![p] = "done"]
    /\ UNCHANGED req
    /\ Heap(BoundKB([k EXCEPT !.user_uploaded_documents =
                        TrackUpload(@, req[p].filename)],
                    l.vector_db, v[l.vector_db].key),
            v, [loc EXCEPT ![p] = Response(l, "ok", FALSE)])

\* lines 393-432 of remove_document_from_global_kb, run on the new database
FinishRemove(p, k, v, l) ==
    LET f == req[p].filename
        entries == v[l.vector_db].entries
        l2 == [l EXCEPT !.chunks_removed = CountRemoved(entries, f)]
        v2 == [v EXCEPT ![l.vector_db].entries = RemoveFromVectors(entries, f)]
        k2 == [k EXCEPT !.chunked_documents = RemoveFromChunks(@, f)]
    IN /\ pc' = [pc EXCEPT ![p] = "done"]
       /\ UNCHANGED req
       /\ IF f \in Range(k.user_uploaded_documents)
          THEN Heap([k2 EXCEPT !.user_uploaded_documents = ListRemove(@, f),
                               !.vector_db = l.vector_db,
                               !.rag_pipeline = l.vector_db,
                               !.regulatory_enhancer = l.vector_db],
                    v2, [loc EXCEPT ![p] = Response(l2, "ok", FALSE)])
          ELSE \* list.remove raises ValueError, caught by the handler
               Heap(k2, v2, [loc EXCEPT ![p] = Response(l2, "fail", FALSE)])

\* the batch embedding call of get_global_knowledge_base returns or raises;
\* on return lines 223-251 run, and the caller continues to its next await
GetKBEmbedded(p, ok) ==
    /\ pc[p] = "kb_embed"
    /\ UNCHANGED << accepted, user_sessions, rag, pureVars >>
    /\ LET l == loc[p]
           key == req[p].key
           v == [vdbs EXCEPT ![l.vector_db].entries = InsertAll(<< >>, l.chunks, key)]
           k == BoundKB(kb, l.vector_db, key)
       IN IF ~ok
          THEN /\ pc' = [pc EXCEPT ![p] = "done"]
               /\ UNCHANGED req
               /\ Heap(kb, vdbs, [loc EXCEPT ![p] = Response(l, "fail", FALSE)])
          ELSE CASE req[p].op = "query" ->
                      /\ pc' = [pc EXCEPT ![p] = "done"]
                      /\ UNCHANGED req
                      /\ Heap(k, v, [loc EXCEPT ![p] = Response(l, "ok", TRUE)])
                 [] req[p].op = "remove" -> FinishRemove(p, k, v, l)
                 [] req[p].op = "add" ->
                      /\ pc' = [pc EXCEPT ![p] = "add_embed"]
                      /\ UNCHANGED req
                      /\ Heap(k, v, loc)

\* one iteration of the chunk loop of add_document_to_global_kb: the
\* embedding call for chunk i returns or raises; after the last chunk the
\* handler runs on to its return
AddChunkEmbedded(p, ok) ==
    /\ pc[p] = "add_embed"
    /\ UNCHANGED << accepted, user_sessions, rag, pureVars >>
    /\ LET l == loc[p]
           r == req[p]
           text == r.docs[l.i + 1]
           metadata == UploadMetadata(r.filename, l.i)
           db == vdbs[l.vector_db]
           v2 == IF ok
                 THEN [vdbs EXCEPT ![l.vector_db].entries =
                          VdbInsert(@, text, Embedding(db.key, text), metadata)]
                 ELSE vdbs
           k2 == IF ok
                 THEN [kb EXCEPT !.chunked_documents =
                          Append(@, [text |-> text, metadata |-> metadata])]
                 ELSE kb
           l2 == [l EXCEPT !.i = @ + 1,
                           !.chunks_added = IF ok THEN @ + 1 ELSE @]
       IN IF l2.i < Len(r.docs)
          THEN /\ UNCHANGED << pc, req >>
               /\ Heap(k2, v2, [loc EXCEPT ![p] = l2])
          ELSE FinishAdd(p, k2, v2, l2)

\* the response has been sent and the handler's frame is gone
Return(p) ==
    /\ pc[p] = "done"
    /\ UNCHANGED << accepted, user_sessions, rag, pureVars >>
    /\ pc' = [pc EXCEPT ![p] = "idle"]
    /\ req' = [req EXCEPT ![p] = NoReq]
    /\ Heap(kb, vdbs, [loc EXCEPT ![p] = NoLoc])

Next ==
    \/ \E loaded \in BOOLEAN : InitializeGlobalKB(loaded)
    \/ \E p \in Procs, f \in Filenames, k \in Keys, sid \in OneClient :
          UploadDocument(p, f, ParsedDocs[f], k, sid)
    \/ \E p \in Procs, f \in Filenames, k \in Keys : DeleteDocument(p, f, k)
    \/ \E p \in Procs, k \in Keys, loaded \in BOOLEAN, sid \in OneClient :
          RagChat(p, k, loaded, sid)
    \/ \E p \in Procs, ok \in BOOLEAN : GetKBEmbedded(p, ok)
    \/ \E p \in Procs, ok \in BOOLEAN : AddChunkEmbedded(p, ok)
    \/ \E p \in Procs : Return(p)

Spec == Init /\ [][Next]_vars

\* the same server with clients that send any session id, known or not
SessionNext ==
    \/ \E loaded \in BOOLEAN : InitializeGlobalKB(loaded)
    \/ \E p \in Procs, f \in SessionFilenames, k \in Keys, sid \in SessionInputs :
          UploadDocument(p, f, ParsedDocs[f], k, sid)
    \/ \E p \in Procs, f \in SessionFilenames, k \in Keys : DeleteDocument(p, f, k)
    \/ \E p \in Procs, k \in Keys, loaded \in BOOLEAN, sid \in SessionInputs :
          RagChat(p, k, loaded, sid)
    \/ \E p \in Procs, ok \in BOOLEAN : GetKBEmbedded(p, ok)
    \/ \E p \in Procs, ok \in BOOLEAN : AddChunkEmbedded(p, ok)
    \/ \E p \in Procs : Return(p)

SessionSpec == Init /\ [][SessionNext]_vars

(* ------------------------------ a query run ---------------------------- *)
kbVars == << kb, vdbs, pc, req, loc, accepted, user_sessions >>

\* the generator of a chat response calls rag_pipeline.run(query, k), or
\* regulatory_enhancer.run_enhanced_rag(query, role, k, doc_types,
\* priority_sources), which begins with search_documents(query, k * 2)
StartRun(path, cosine, k, query_hits, doc_types, priority_sources) ==
    /\ rag.pc = "none"
    /\ path = "base" => doc_types = NoList /\ priority_sources = NoList
    /\ rag' = [NoRag EXCEPT !.pc = "embed", !.path = path, !.cosine = cosine,
                            !.k = k, !.query_hits = query_hits,
                            !.doc_types = doc_types,
                            !.priority_sources = priority_sources,
                            !.requested = IF path = "enhanced" THEN k * 2 ELSE k]
    /\ UNCHANGED << kbVars, pureVars >>

\* the except branch of run_enhanced_rag: base_rag.run(query, k), whose
\* result gets regulatory_context False and fallback True
Fallback(error) ==
    [rag EXCEPT !.pc = "embed", !.path = "fallback", !.error = error,
                !.failure = error, !.requested = rag.k, !.calls = << >>,
                !.base_results = << >>, !.search_results = << >>]

\* the dict a run returns; the fallback flags are set on a base result that
\* run_enhanced_rag obtained in its except branch
Finished(r, response, sources, regulatory_context) ==
    [r EXCEPT !.pc = "done",
              !.result = [response |-> response, sources |-> sources,
                          fallback |-> (r.path = "fallback"),
                          regulatory_context |-> regulatory_context,
                          error |-> FALSE]]

\* search_documents has its results (none when it caught an exception)
Searched(r, results) ==
    IF r.path = "enhanced"
    THEN [r EXCEPT !.pc = "rank", !.base_results = results]
    ELSE IF NoResults(results)
         THEN Finished([r EXCEPT !.base_results = results], "no_info", {}, FALSE)
         ELSE [r EXCEPT !.pc = "format", !.base_results = results,
                        !.search_results = results]

\* search_documents: embedding_model.get_embedding(query) returns or raises
EmbedQuery(ok) ==
    /\ rag.pc = "embed"
    /\ UNCHANGED << kbVars, pureVars >>
    /\ LET r == [rag EXCEPT !.calls = Append(@, "embed")]
       IN rag' = IF ok THEN [r EXCEPT !.pc = "search"]
                 ELSE Searched([r EXCEPT !.error =
                                   IF r.path = "enhanced" THEN "search" ELSE @,
                                         !.failure = "embed"],
                               << >>)

\* search_documents: vector_db.search(query_vector, k) returns or raises
SearchIndex(ok) ==
    /\ rag.pc = "search"
    /\ UNCHANGED << kbVars, pureVars >>
    /\ LET r == [rag EXCEPT !.calls = Append(@, "search")]
       IN rag' = IF ok THEN Searched(r, VdbSearch(r.cosine, r.requested))
                 ELSE Searched([r EXCEPT !.error =
                                   IF r.path = "enhanced" THEN "search" ELSE @,
                                         !.failure = "search"],
                               << >>)

\* enhanced_search after the base search, and the test for no results of
\* run_enhanced_rag; the loop can only raise on a result
RankResults(ok) ==
    /\ rag.pc = "rank"
    /\ UNCHANGED << kbVars, pureVars >>
    /\ ~ok => rag.base_results # << >>
    /\ LET found == EnhancedSearch(rag.base_results, rag.k, rag.query_hits,
                                   rag.doc_types, rag.priority_sources)
       IN rag' = IF ~ok THEN Fallback("rank")
                 ELSE IF NoResults(found)
                      THEN Finished(rag, "no_regulatory_documents", {}, FALSE)
                      ELSE [rag EXCEPT !.pc = "format", !.search_results = found]

\* format_context, or enhanced_format_context on the enhanced path
FormatContext(ok) ==
    /\ rag.pc = "format"
    /\ UNCHANGED << kbVars, pureVars >>
    /\ LET r == [rag EXCEPT !.calls = Append(@, "format")]
       IN rag' = IF ok THEN [r EXCEPT !.pc = "generate"]
                 ELSE IF r.path = "enhanced" THEN Fallback("format")
                      ELSE Finished([r EXCEPT !.failure = "format"],
                                    "system_issue", {}, FALSE)

\* llm.run(messages) returns or raises: generate_response catches the
\* exception and answers with its apology, run_enhanced_rag falls back
Generate(ok) ==
    /\ rag.pc = "generate"
    /\ UNCHANGED << kbVars, pureVars >>
    /\ LET r == [rag EXCEPT !.calls = Append(@, "generate")]
       IN rag' = IF r.path = "enhanced"
                 THEN IF ok THEN Finished(r, "answer", SourcesOf(r.search_results), TRUE)
                      ELSE Fallback("chat")
                 ELSE Finished([r EXCEPT !.failure = IF ok THEN @ ELSE "chat"],
                               IF ok THEN "answer" ELSE "unable_to_generate",
                               SourcesOf(r.search_results), FALSE)

RagNext ==
    \/ \E path \in {"base", "enhanced"},
          cosine \in [DOMAIN Corpus -> Scores] \cup {<< >>},
          k \in 1..MaxK, query_hits \in 0..1, doc_types \in ListsOver(DocTypes),
          priority_sources \in ListsOver(PriorityTokens) :
          StartRun(path, cosine, k, query_hits, doc_types, priority_sources)
    \/ \E ok \in BOOLEAN : EmbedQuery(ok)
    \/ \E ok \in BOOLEAN : SearchIndex(ok)
    \/ \E ok \in BOOLEAN : RankResults(ok)
    \/ \E ok \in BOOLEAN : FormatContext(ok)
    \/ \E ok \in BOOLEAN : Generate(ok)

RagSpec == Init /\ [][RagNext]_vars

(* -------------------------- streaming a response ----------------------- *)
\* generate() of rag_chat and regulatory_rag_chat: the run it called has
\* returned its dict
RunReturned ==
    /\ rag.pc = "done"
    /\ stream.pc = "none"
    /\ stream' = [NoStream EXCEPT !.pc = "split", !.path = rag.path,
                                  !.response = rag.result.response,
                                  !.failure = rag.failure, !.calls = rag.calls]
    /\ rag' = [NoRag EXCEPT !.pc = "returned"]
    /\ UNCHANGED << kbVars, emb, parsed >>

\* response_text is the generated text or the canned message, and is split;
\* a response without text makes split raise, and the except branch yields
\* the error item
StartStream(text) ==
    /\ stream.pc = "split"
    /\ IF stream.response = "answer" THEN text \in Texts \cup {NoText}
       ELSE text = Message(stream.response)
    /\ stream' = [stream EXCEPT
                    !.pc = "emit", !.text = text,
                    !.paragraphs = IF text = NoText THEN << >> ELSE Split(text),
                    !.i = 1,
                    !.out = IF text = NoText THEN << ErrorItem >> ELSE << >>]
    /\ UNCHANGED << kbVars, rag, emb, parsed >>

\* the paragraphs from position i on that are not blank
Pending ==
    {j \in stream.i..Len(stream.paragraphs) : ~Blank(stream.paragraphs[j])}

\* the for loop runs to its next yield
YieldParagraph ==
    /\ stream.pc = "emit"
    /\ Pending # {}
    /\ LET j == CHOOSE n \in Pending : \A m \in Pending : n <= m
       IN stream' = [stream EXCEPT !.out = Append(@, Item(stream.paragraphs[j])),
                                   !.i = j + 1]
    /\ UNCHANGED << kbVars, rag, emb, parsed >>

\* the for loop ends and the generator returns
CloseStream ==
    /\ stream.pc = "emit"
    /\ Pending = {}
    /\ stream' = [stream EXCEPT !.pc = "closed", !.i = Len(stream.paragraphs) + 1]
    /\ UNCHANGED << kbVars, rag, emb, parsed >>

StreamNext ==
    \/ RagNext
    \/ RunReturned
    \/ \E text \in Texts \cup {NoText}
                   \cup {Message(r) : r \in {"no_info", "unable_to_generate",
                                              "system_issue",
                                              "no_regulatory_documents"}} :
          StartStream(text)
    \/ YieldParagraph
    \/ CloseStream

StreamSpec == Init /\ [][StreamNext]_vars

(* ---------------------- a call of async_get_embeddings ----------------- *)
queryVars == << rag, stream >>

\* the call splits list_of_text into batches and hands one process_batch
\* coroutine per batch to asyncio.gather
StartEmbed(n) ==
    /\ emb.pc = "none"
    /\ LET batches == BatchStarts(n)
       IN emb' = [NoEmb EXCEPT !.pc = "gather", !.n = n, !.batches = batches,
                               !.results = [b \in DOMAIN batches |-> 0]]
    /\ UNCHANGED << kbVars, queryVars, parsed >>

\* the next task of the gather starts and runs to its await: the request
\* for its batch is sent; nothing limits how many are sent
IssueBatch ==
    /\ emb.pc = "gather"
    /\ emb.issued < Len(emb.batches)
    /\ LET b == emb.issued + 1
           batch == Batch(ListOfText(emb.n), emb.batches[b])
       IN emb' = [emb EXCEPT !.issued = b, !.sent = Append(@, Len(batch)),
                             !.in_flight = @ \cup {b}]
    /\ UNCHANGED << kbVars, queryVars, parsed >>

\* the response to a request arrives, or the request fails and gather
\* raises the exception into the caller
CompleteBatch(b, ok) ==
    /\ emb.pc = "gather"
    /\ b \in emb.in_flight
    /\ emb' = IF ok THEN [emb EXCEPT !.in_flight = @ \ {b},
                                     !.results = RecordResult(@, b),
                                     !.overtaken =
                                         @ \/ \E a \in emb.in_flight : a < b]
              ELSE [emb EXCEPT !.in_flight = @ \ {b}, !.pc = "raised"]
    /\ UNCHANGED << kbVars, queryVars, parsed >>

\* every task is done: gather returns the results and the call flattens them
ReturnEmbeddings ==
    /\ emb.pc = "gather"
    /\ \A b \in DOMAIN emb.results : emb.results[b] # 0
    /\ LET list_of_text == ListOfText(emb.n)
           results == [p \in DOMAIN emb.results |->
                          ResponseData(Batch(list_of_text,
                                             emb.batches[emb.results[p]]))]
       IN emb' = [emb EXCEPT !.pc = "returned", !.returned = Flatten(results)]
    /\ UNCHANGED << kbVars, queryVars, parsed >>

EmbedNext ==
    \/ \E n \in TextCounts : StartEmbed(n)
    \/ IssueBatch
    \/ \E b \in 1..MaxBatches, ok \in BOOLEAN : CompleteBatch(b, ok)
    \/ ReturnEmbeddings

EmbedSpec == Init /\ [][EmbedNext]_vars

(* ------------------------- a call of process_document ------------------ *)
\* process_document is called on a PDF file with the given pages
OpenPdf(pages) ==
    /\ parsed.pc = "none"
    /\ parsed' = [NoParse EXCEPT !.pc = "opened", !.doc_type = "pdf",
                                 !.filename = "basel.pdf", !.pages = pages]
    /\ UNCHANGED << kbVars, queryVars, emb >>

\* process_document is called on a workbook with the given sheets
OpenWorkbook(filename, sheets) ==
    /\ parsed.pc = "none"
    /\ parsed' = [NoParse EXCEPT !.pc = "opened", !.doc_type = "excel",
                                 !.filename = filename, !.sheets = sheets]
    /\ UNCHANGED << kbVars, queryVars, emb >>

\* _process_pdf returns its chunks
ParsePdf ==
    /\ parsed.pc = "opened" /\ parsed.doc_type = "pdf"
    /\ parsed' = [parsed EXCEPT !.pc = "done",
                                !.chunks = ProcessPdf(LoadDocuments(parsed.pages),
                                                      parsed.filename)]
    /\ UNCHANGED << kbVars, queryVars, emb >>

\* _process_xlsx returns its chunks
ParseXlsx ==
    /\ parsed.pc = "opened" /\ parsed.doc_type = "excel"
    /\ parsed' = [parsed EXCEPT !.pc = "done",
                                !.chunks = ProcessXlsx(parsed.sheets, parsed.filename)]
    /\ UNCHANGED << kbVars, queryVars, emb >>

ParseNext ==
    \/ \E n \in 0..MaxPages : \E pages \in [1..n -> PageTexts] : OpenPdf(pages)
    \/ \E filename \in ExcelFilenames, sheets \in Workbooks :
          OpenWorkbook(filename, sheets)
    \/ ParsePdf
    \/ ParseXlsx

ParseSpec == Init /\ [][ParseNext]_vars

(* --------------------- vocabulary of the properties -------------------- *)
Bound == kb.vector_db # NoSlot

\* the entries of the Index the knowledge base holds
StoredIndex == vdbs[kb.vector_db].entries

Succeeded(p, op) == pc[p] = "done" /\ req[p].op = op /\ loc[p].result = "ok"

InFlight(p, op) == pc[p] \in {"kb_embed", "add_embed"} /\ req[p].op = op

\* the chunks a complete upload of the file adds
UploadChunks(f) ==
    [i \in 1..Len(ParsedDocs[f]) |->
        [text |-> ParsedDocs[f][i], metadata |-> UploadMetadata(f, i - 1)]]

\* the chunks of upload r that an Index holds
IndexedChunksOf(entries, r) ==
    {i \in 1..Len(r.docs) :
        /\ r.docs[i] \in DOMAIN entries
        /\ entries[r.docs[i]].metadata = UploadMetadata(r.filename, i - 1)}

\* text -> (filename, source) of an Index
Projection(entries) ==
    [t \in DOMAIN entries |->
        [filename |-> entries[t].metadata.filename,
         source |-> entries[t].metadata.source]]

TypeOK ==
    /\ pc \in [Procs -> {"idle", "kb_embed", "add_embed", "done"}]
    /\ kb.vector_db \in Slots \cup {NoSlot}
    /\ Len(kb.chunked_documents) <= MaxChunks
    /\ accepted \in 0..MaxRequests
    /\ Len(user_sessions) <= MaxSessions
    /\ rag.pc \in {"none", "embed", "search", "rank", "format", "generate", "done",
                  "returned"}
    /\ stream.pc \in {"none", "split", "emit", "closed"}
    /\ emb.pc \in {"none", "gather", "raised", "returned"}
    /\ Len(emb.batches) <= MaxBatches
    /\ parsed.pc \in {"none", "opened", "done"}
    /\ Len(parsed.pages) <= MaxPages /\ Len(parsed.sheets) <= MaxSheets
    /\ Len(stream.text) <= MaxText \/ stream.response # "answer"
    /\ rag.k \in 0..MaxK

(* ------------------------------- C1 ------------------------------------ *)
\* C1: while an add_document(f) is in flight, the Index a concurrent query
\* has built and searches holds none of the chunks of that upload or all of
\* them, never a non-empty proper subset.
C1_NoPartialUploadVisible ==
    \A q \in Procs, a \in Procs :
        (Succeeded(q, "query") /\ InFlight(a, "add")) =>
            LET seen == IndexedChunksOf(vdbs[loc[q].vector_db].entries, req[a])
            IN seen = {} \/ seen = 1..Len(req[a].docs)

(* ------------------------------- C2 ------------------------------------ *)
\* C2: once the preloaded corpus is loaded, every preloaded chunk stays in
\* chunked_documents and, when an Index is bound, its text stays indexed,
\* whatever add_document and remove_document calls have run.
C2_OriginalsKept ==
    (kb.initialized /\ kb.documents # << >>) =>
        \A i \in DOMAIN KB_CHUNKS :
            /\ KB_CHUNKS[i] \in Range(kb.chunked_documents)
            /\ (Bound /\ \A p \in Procs : pc[p] \in {"idle", "done"})
                   => KB_CHUNKS[i].text \in DOMAIN StoredIndex

(* ------------------------------- C3 ------------------------------------ *)
\* C3: an add_document under the name of a preloaded document is rejected:
\* it never reports success, no user-uploaded chunk carries a preloaded
\* filename and no preloaded filename enters user_uploaded_documents.
C3_PreloadedNameRejected ==
    /\ \A p \in Procs :
          (pc[p] = "done" /\ req[p].op = "add"
              /\ req[p].filename \in Range(kb.documents)) => loc[p].result = "fail"
    /\ \A f \in Range(kb.documents) :
          /\ f \notin Range(kb.user_uploaded_documents)
          /\ \A c \in Range(kb.chunked_documents) :
                c.metadata.filename = f => c.metadata.source # "user_uploaded"

(* ------------------------------- C4 ------------------------------------ *)
\* C4: a successful remove_document(f) takes out of the Index it works on
\* exactly the entries whose metadata filename is f: no entry of f is left,
\* every other entry keeps its vector and metadata, nothing is added, and
\* chunks_removed is the number of entries that had filename f.
C4_RemoveExactlyFile ==
    [][\A p \in Procs :
          (pc[p] = "kb_embed" /\ req[p].op = "remove"
              /\ pc'[p] = "done" /\ loc'[p].result = "ok") =>
            LET f == req[p].filename
                before == InsertAll(<< >>, loc[p].chunks, req[p].key)
                after == vdbs'[kb'.vector_db].entries
                ofFile == {t \in DOMAIN before : before[t].metadata.filename = f}
            IN /\ \A t \in DOMAIN after : after[t].metadata.filename # f
               /\ DOMAIN after = (DOMAIN before) \ ofFile
               /\ \A t \in DOMAIN after : after[t] = before[t]
               /\ loc'[p].chunks_removed = Cardinality(ofFile)]_vars

\* a removal succeeded, took entries out and left entries of other files
C4_Witness ==
    \E p \in Procs :
        /\ Succeeded(p, "remove")
        /\ loc[p].chunks_removed >= 1
        /\ Bound
        /\ kb.vector_db = "kb"
        /\ \E t \in DOMAIN StoredIndex :
              StoredIndex[t].metadata.filename # req[p].filename

(* ------------------------------- C5 ------------------------------------ *)
\* C5: an add_document in which the embedding of some chunk failed is
\* aborted: it does not report success, none of its chunks is in
\* chunked_documents and its filename is not in user_uploaded_documents.
C5_EmbeddingFailureAborts ==
    \A p \in Procs :
        (pc[p] = "done" /\ req[p].op = "add" /\ accepted = 1
            /\ loc[p].chunks_added < Len(req[p].docs)) =>
            /\ loc[p].result = "fail"
            /\ req[p].filename \notin Range(kb.user_uploaded_documents)
            /\ \A c \in Range(kb.chunked_documents) :
                  c.metadata # UploadMetadata(req[p].filename, c.metadata.chunk_index)

(* ------------------------------- C6 ------------------------------------ *)
\* C6: when the only requests served are an upload of a new file f and then
\* a successful removal of f, the Index is back at its pre-upload size (the
\* number of texts of the preloaded corpus) and holds no chunk of f.
C6_UploadThenDeleteRestores ==
    \A a \in Procs, d \in Procs :
        (accepted = 2 /\ Succeeded(a, "add") /\ Succeeded(d, "remove")
            /\ req[a].filename = req[d].filename
            /\ req[a].filename \notin Range(kb.documents)) =>
            /\ Bound
            /\ Cardinality(DOMAIN StoredIndex)
                  = Cardinality({KB_CHUNKS[i].text : i \in DOMAIN KB_CHUNKS})
            /\ \A t \in DOMAIN StoredIndex :
                  StoredIndex[t].metadata.filename # req[d].filename

(* ------------------------------- C7 ------------------------------------ *)
\* what the Index maps to (filename, source) after one complete upload of f
\* into the preloaded corpus
OnceUploaded(f) ==
    [t \in {KB_CHUNKS[i].text : i \in DOMAIN KB_CHUNKS} \cup Range(ParsedDocs[f]) |->
        IF t \in Range(ParsedDocs[f])
        THEN [filename |-> f, source |-> "user_uploaded"]
        ELSE [filename |-> PreloadedFile, source |-> "global_kb"]]

\* C7: when the only requests served are complete uploads of one file,
\* once or twice, the Index maps the same texts to the same filename and
\* source: the second upload overwrites the entries of the first.
C7_ReuploadSameIndex ==
    \A f \in Filenames :
        (/\ accepted \in 1..2
         /\ Cardinality({p \in Procs : pc[p] = "done"}) = accepted
         /\ \A p \in Procs : pc[p] = "done" =>
               /\ Succeeded(p, "add")
               /\ req[p].filename = f
               /\ loc[p].chunks_added = Len(req[p].docs)) =>
            /\ Bound
            /\ Projection(StoredIndex) = OnceUploaded(f)

\* the same file has been uploaded twice, completely
C7_Witness ==
    /\ accepted = 2
    /\ \A p \in Procs :
          /\ Succeeded(p, "add")
          /\ req[p].filename = "g.pdf"
          /\ loc[p].chunks_added = Len(req[p].docs)
    /\ Len(kb.chunked_documents) = Len(KB_CHUNKS) + 2 * Len(ParsedDocs["g.pdf"])

(* ------------------------------- C8 ------------------------------------ *)
\* C8: the Index a bind produces holds exactly the texts of the chunks the
\* knowledge base holds at that time (preloaded and uploaded), each with the
\* metadata of the latest chunk of that text, and every vector comes from
\* the key of that bind: between two binds only the vectors differ.
C8_RebindKeepsTextsAndMetadata ==
    [][\A p \in Procs :
          (pc[p] = "kb_embed" /\ req[p].op = "query"
              /\ pc'[p] = "done" /\ loc'[p].result = "ok") =>
            LET chunks == loc[p].chunks
                index == vdbs'[loc'[p].vector_db].entries
                latest(t) == CHOOSE i \in DOMAIN chunks :
                                /\ chunks[i].text = t
                                /\ \A j \in DOMAIN chunks :
                                      chunks[j].text = t => j <= i
            IN /\ kb'.vector_db = loc'[p].vector_db
               /\ DOMAIN index = {chunks[i].text : i \in DOMAIN chunks}
               /\ \A t \in DOMAIN index :
                     /\ index[t].metadata = chunks[latest(t)].metadata
                     /\ index[t].vector = Embedding(req[p].key, t)]_vars

\* two binds with different keys stand side by side, the knowledge base
\* holding a user upload: the same texts and metadata, different vectors
C8_Witness ==
    /\ Succeeded("h1", "query") /\ Succeeded("h2", "query")
    /\ req["h1"].key = "k1" /\ req["h2"].key = "k2"
    /\ kb.user_uploaded_documents # << >>
    /\ kb.vector_db = "h2"
    /\ Projection(vdbs["h1"].entries) = Projection(vdbs["h2"].entries)
    /\ \E t \in DOMAIN vdbs["h2"].entries :
          /\ vdbs["h2"].entries[t].metadata.source = "user_uploaded"
          /\ vdbs["h2"].entries[t].vector # vdbs["h1"].entries[t].vector

(* ------------------------------- C9 ------------------------------------ *)
\* C9: a get_global_knowledge_base call with the key the knowledge base is
\* already bound to issues no embedding call and leaves the Index
\* reference unchanged.
C9_SameKeyBindIsNoOp ==
    [][\A p \in Procs :
          (pc[p] = "idle" /\ pc'[p] # "idle" /\ req'[p].op = "query"
              /\ Bound /\ vdbs[kb.vector_db].key = req'[p].key) =>
            /\ pc'[p] # "kb_embed"
            /\ kb'.vector_db = kb.vector_db]_vars

(* ------------------------------- C10 ----------------------------------- *)
\* C10: when the only requests served are two complete, successful uploads
\* of different new files, chunked_documents (as a collection of chunks) and the
\* Index are those of the two uploads run one after the other in one of the
\* two orders.
C10_UploadsSerialized ==
    \A p \in Procs, q \in Procs :
        (/\ accepted = 2
         /\ Succeeded(p, "add") /\ Succeeded(q, "add")
         /\ req[p].filename # req[q].filename
         /\ {req[p].filename, req[q].filename} \cap Range(kb.documents) = {}
         /\ loc[p].chunks_added = Len(req[p].docs)
         /\ loc[q].chunks_added = Len(req[q].docs)) =>
            \E first \in {p, q}, second \in {p, q} :
                /\ first # second
                /\ LET serial == KB_CHUNKS \o UploadChunks(req[first].filename)
                                           \o UploadChunks(req[second].filename)
                   IN /\ Range(kb.chunked_documents) = Range(serial)
                      /\ Len(kb.chunked_documents) = Len(serial)
                      /\ Bound
                      /\ Projection(StoredIndex)
                            = Projection(InsertAll(<< >>, serial, "k1"))

(* ------------------------------- C11 ----------------------------------- *)
NoRepeats(seq) == \A i \in DOMAIN seq, j \in DOMAIN seq : seq[i] = seq[j] => i = j

\* C11: after every step user_uploaded_documents holds each filename at most
\* once, also when uploads of the same filename overlap, and the step in
\* which a remove_document(f) succeeds leaves f absent from the list.
C11_UploadedNamesUnique ==
    [][/\ NoRepeats(kb'.user_uploaded_documents)
       /\ \A p \in Procs :
             (pc[p] = "kb_embed" /\ req[p].op = "remove"
                 /\ pc'[p] = "done" /\ loc'[p].result = "ok") =>
               req[p].filename \notin Range(kb'.user_uploaded_documents)]_vars

\* the same filename has been uploaded twice with success and is listed once
C11_Witness ==
    /\ \A p \in Procs : Succeeded(p, "add") /\ req[p].filename = "g.pdf"
    /\ kb.user_uploaded_documents = << "g.pdf" >>

(* ------------------------------- C12 ----------------------------------- *)
\* C12: every chunk the knowledge base holds carries is_original, true
\* exactly when its source is the preloaded corpus: preloaded chunks have
\* is_original true, chunks added by add_document have source user_uploaded
\* and is_original false.
C12_OriginalIffPreloaded ==
    \A c \in Range(kb.chunked_documents) :
        /\ c.metadata.is_original \in {"true", "false"}
        /\ (c.metadata.is_original = "true") <=> (c.metadata.source = "global_kb")
        /\ c.metadata.source \in {"global_kb", "user_uploaded"}

(* ------------------------------- C13 ----------------------------------- *)
\* C13: on every registry the server can hold, get_or_create_session with
\* the id of an existing session returns that id, creates no session and
\* changes at most the key binding of that session (created_at, the document
\* list and every other session are unchanged); with no id or an id no
\* session has it adds exactly one session under an id no session had, with
\* created_at set and an empty document list, all other sessions unchanged.
C13_GetOrCreateFrame ==
    \A sid \in SessionInputs, key \in Keys \cup {NoKey} :
        LET now == accepted + 1
            r == GetOrCreateSession(user_sessions, sid, key, now)
            after == r.sessions
        IN IF sid \in DOMAIN user_sessions
           THEN /\ r.session_id = sid
                /\ DOMAIN after = DOMAIN user_sessions
                /\ \A o \in DOMAIN after : o # sid => after[o] = user_sessions[o]
                /\ after[sid].created_at = user_sessions[sid].created_at
                /\ after[sid].documents = user_sessions[sid].documents
                /\ after[sid].has_global_kb = user_sessions[sid].has_global_kb
                /\ key # NoKey => after[sid].api_key = key
           ELSE /\ r.session_id \notin DOMAIN user_sessions
                /\ DOMAIN after = DOMAIN user_sessions \cup {r.session_id}
                /\ \A o \in DOMAIN user_sessions : after[o] = user_sessions[o]
                /\ after[r.session_id].created_at = now
                /\ after[r.session_id].documents = << >>

\* two requests with different keys were served on the same session, which
\* was created by an earlier request: the second one rotated its key
C13_Witness ==
    /\ Len(user_sessions) = 2
    /\ pc["h1"] = "done" /\ pc["h2"] = "done"
    /\ req["h1"].session_id = 1 /\ req["h2"].session_id = 1
    /\ req["h1"].key # req["h2"].key
    /\ user_sessions[1].created_at = 1
    /\ user_sessions[1].api_key = req["h2"].key
    /\ user_sessions[2].api_key # user_sessions[1].api_key

(* ------------------------------- C14 ----------------------------------- *)
\* C14: after a successful upload made with session s the filename is in the
\* document list of s, so the document_count list_sessions reports for s is
\* at least one.
C14_UploadListedInSession ==
    \A p \in Procs :
        Succeeded(p, "add") =>
            /\ req[p].session_id \in DOMAIN user_sessions
            /\ req[p].filename \in Range(user_sessions[req[p].session_id].documents)
            /\ ListSessions(user_sessions).sessions[req[p].session_id].document_count >= 1

(* ------------------------------- C15 ----------------------------------- *)
\* two answered queries with the same key, built from the same chunks of the
\* knowledge base, under different sessions search the same Index
SameRetrieval ==
    \A p \in Procs, q \in Procs :
        (/\ Succeeded(p, "query") /\ Succeeded(q, "query")
         /\ req[p].key = req[q].key
         /\ loc[p].chunks = loc[q].chunks
         /\ req[p].session_id # req[q].session_id) =>
            vdbs[loc[p].vector_db].entries = vdbs[loc[q].vector_db].entries

\* C15: retrieval does not depend on the session: a query is taken to the
\* global knowledge base whenever that holds chunks, whatever session id it
\* carries (known, unknown or none), and two queries with the same key on
\* the same knowledge base state search the same Index.
C15_RetrievalIgnoresSession ==
    [][/\ SameRetrieval'
       /\ \A p \in Procs :
             (pc[p] = "idle" /\ pc'[p] # "idle" /\ req'[p].op = "query") =>
               (pc'[p] = "kb_embed" <=>
                   (kb'.error = "none" /\ kb'.chunked_documents # << >>))]_vars

\* two answered queries stand side by side, one on the session an earlier
\* request created and one on a session of its own, the knowledge base
\* holding a user upload
C15_Witness ==
    /\ Succeeded("h1", "query") /\ Succeeded("h2", "query")
    /\ req["h1"].key = req["h2"].key
    /\ loc["h1"].chunks = loc["h2"].chunks
    /\ req["h1"].session_id = 1 /\ req["h2"].session_id = 2
    /\ user_sessions[1].created_at = 1 /\ user_sessions[2].created_at = 3
    /\ \E i \in DOMAIN loc["h1"].chunks :
          loc["h1"].chunks[i].metadata.source = "user_uploaded"
    /\ DOMAIN vdbs["h1"].entries # {}

(* --------------------- vocabulary of the query path -------------------- *)
\* enhanced_search has returned on the enhanced path of the run
EnhancedSearchReturned ==
    rag.path = "enhanced" /\ rag.pc \in {"format", "generate", "done"}

\* the base results that pass the whitelist, with their scores for ranking
Retained ==
    EnhanceAll(rag.base_results, rag.query_hits, rag.doc_types, rag.priority_sources)

\* a priority token occurs in the filename as it is stored in the metadata
TokenInFilename(filename, tokens) ==
    \E t \in tokens : Substring(t, filename)

\* position of the result with the given text in a list, 0 when it is not there
Position(results, text) ==
    IF \E i \in DOMAIN results : results[i].text = text
    THEN CHOOSE i \in DOMAIN results : results[i].text = text
    ELSE 0

(* ------------------------------- C16 ----------------------------------- *)
\* C16: enhanced_search(query, k) asks the base search for 2k results and
\* returns min(k, retained) of the retained ones, in order of non-increasing
\* final = 0.7 * score + 0.3 * regulatory_score; no retained result that was
\* not returned has a final above that of a returned one.
C16_TopKByFinal ==
    EnhancedSearchReturned =>
        LET returned == rag.search_results
        IN /\ rag.requested = 2 * rag.k
           /\ Len(rag.base_results) <= 2 * rag.k
           /\ Len(returned) <= rag.k
           /\ Len(returned) = Min(rag.k, Len(Retained))
           /\ \A i \in DOMAIN returned : returned[i] \in Range(Retained)
           /\ \A i \in DOMAIN returned, j \in DOMAIN returned :
                 i < j => Final(returned[i]) >= Final(returned[j])
           /\ \A c \in Range(Retained) :
                 c \notin Range(returned) =>
                     \A i \in DOMAIN returned : Final(c) <= Final(returned[i])

\* the re-ranking put another result first than the base search did and
\* left retained results out
C16_Witness ==
    /\ EnhancedSearchReturned /\ rag.pc = "format"
    /\ Len(Retained) > rag.k
    /\ Len(rag.search_results) = rag.k
    /\ rag.search_results[1].text # rag.base_results[1].text

(* ------------------------------- C17 ----------------------------------- *)
\* C17: with a priority token that occurs in the filename of a chunk, that
\* chunk with cosine 0.60 is ranked above a chunk of another file with
\* cosine 0.80 (the two having the same regulatory score, as in the
\* example of the specification): when the second is returned, the first is
\* returned before it.
C17_PriorityOutranks ==
    (EnhancedSearchReturned /\ rag.priority_sources.given) =>
        \A i \in DOMAIN rag.base_results, j \in DOMAIN rag.base_results :
            LET a == rag.base_results[i]
                b == rag.base_results[j]
                tokens == rag.priority_sources.items
            IN (/\ TokenInFilename(a.metadata.filename, tokens)
                /\ ~TokenInFilename(b.metadata.filename, tokens)
                /\ ~PriorityMatch(b.metadata.filename, tokens)
                /\ ~Dropped(a, rag.doc_types) /\ ~Dropped(b, rag.doc_types)
                /\ a.score = 60 /\ b.score = 80
                /\ RegulatoryRelevance(a, rag.query_hits)
                      = RegulatoryRelevance(b, rag.query_hits)
                /\ Position(rag.search_results, b.text) # 0) =>
                   /\ Position(rag.search_results, a.text) # 0
                   /\ Position(rag.search_results, a.text)
                         < Position(rag.search_results, b.text)

(* ------------------------------- C18 ----------------------------------- *)
\* C18: with a doc_types whitelist (a list that is not empty) every result
\* enhanced_search returns has a doc_type of the whitelist, and the results
\* of other types are dropped before the ranking and the cut to k: the
\* search returns min(k, number of base results of the listed types).
C18_WhitelistBeforeCut ==
    (EnhancedSearchReturned /\ Truthy(rag.doc_types)) =>
        LET returned == rag.search_results
            listed == {i \in DOMAIN rag.base_results :
                          rag.base_results[i].metadata.doc_type
                              \in rag.doc_types.items}
        IN /\ \A i \in DOMAIN returned :
                 returned[i].metadata.doc_type \in rag.doc_types.items
           /\ Len(returned) = Min(rag.k, Cardinality(listed))

\* the whitelist dropped the best base result, and k listed ones are returned
C18_Witness ==
    /\ EnhancedSearchReturned /\ rag.pc = "format"
    /\ Truthy(rag.doc_types)
    /\ Len(rag.search_results) = rag.k
    /\ \E i \in DOMAIN rag.base_results :
          /\ Dropped(rag.base_results[i], rag.doc_types)
          /\ \A j \in DOMAIN rag.search_results :
                Final(Enhanced(rag.base_results[i], rag.query_hits,
                               rag.priority_sources))
                    > Final(rag.search_results[j])

(* ------------------------------- C19 ----------------------------------- *)
\* C19: a run of run_enhanced_rag in which a step of the enhanced path
\* failed (search, ranking, context formatting or chat) ends with the
\* result of the base pipeline marked fallback = true; no result of such a
\* run is without the mark.
C19_FailureFallsBack ==
    (rag.pc = "done" /\ rag.error # "none") =>
        /\ rag.result.fallback = TRUE
        /\ rag.result.regulatory_context = FALSE
        /\ rag.result.response
              \in {"answer", "no_info", "unable_to_generate", "system_issue"}

(* ------------------------------- C20 ----------------------------------- *)
IsPrefix(a, b) == Len(a) <= Len(b) /\ a = SubSeq(b, 1, Len(a))

\* C20: a run of the pipeline makes its calls in the order embed, search,
\* format, generate; when the search gave no result the run returns the
\* no-relevant-information message with no sources and the chat model is
\* not called in that run.
C20_OrderAndNoResults ==
    rag.path \in {"base", "fallback"} =>
        /\ IsPrefix(rag.calls, << "embed", "search", "format", "generate" >>)
        /\ rag.pc \in {"format", "generate"} => rag.base_results # << >>
        /\ rag.pc = "done" =>
              IF rag.base_results = << >>
              THEN /\ rag.result.response = "no_info"
                   /\ rag.result.sources = {}
                   /\ "generate" \notin Range(rag.calls)
              ELSE "format" \in Range(rag.calls)

\* a run searched an Index without entries and answered with the message
C20_Witness ==
    /\ rag.path = "base" /\ rag.pc = "done"
    /\ rag.cosine = << >>
    /\ rag.calls = << "embed", "search" >>
    /\ rag.result.response = "no_info"

(* ------------------------------- C21 ----------------------------------- *)
\* a paragraph of whitespace only
AllWhitespace(paragraph) == \A n \in DOMAIN paragraph : paragraph[n] \in Whitespace

\* t is the paragraph without the whitespace at its two ends
Trimmed(paragraph, t) ==
    \E a \in DOMAIN paragraph, b \in DOMAIN paragraph :
        /\ a <= b /\ t = SubSeq(paragraph, a, b)
        /\ paragraph[a] \notin Whitespace /\ paragraph[b] \notin Whitespace
        /\ \A n \in DOMAIN paragraph : (n < a \/ n > b) => paragraph[n] \in Whitespace

\* C21: the items streamed so far are the non-blank ones among the
\* paragraphs the generator has passed, in their order in the text, each
\* once, trimmed and followed by the blank-line separator; the paragraphs
\* are the pieces of the generated text between its blank-line separators.
C21_StreamIsParagraphs ==
    (stream.pc \in {"emit", "closed"} /\ stream.text # NoText) =>
        LET paragraphs == stream.paragraphs
            passed == {j \in 1..(stream.i - 1) : ~AllWhitespace(paragraphs[j])}
            nth(n) == CHOOSE j \in passed : Cardinality({m \in passed : m <= j}) = n
        IN /\ Join(paragraphs, ParagraphBreak) = stream.text
           /\ stream.i <= Len(paragraphs) + 1
           /\ stream.pc = "closed" => stream.i = Len(paragraphs) + 1
           /\ Len(stream.out) = Cardinality(passed)
           /\ \A n \in DOMAIN stream.out :
                 \E t \in {SubSeq(stream.out[n], 1, Len(stream.out[n]) - 2)} :
                     /\ stream.out[n] = t \o ParagraphBreak
                     /\ Trimmed(paragraphs[nth(n)], t)

\* a generated text with a blank paragraph between two others, one of them
\* with whitespace at an end, has been streamed to its end
C21_Witness ==
    /\ stream.pc = "closed" /\ stream.response = "answer"
    /\ stream.text # NoText
    /\ Len(stream.out) = 2
    /\ Len(stream.paragraphs) = 3
    /\ \E j \in DOMAIN stream.paragraphs :
          /\ ~AllWhitespace(stream.paragraphs[j])
          /\ stream.paragraphs[j][1] \in Whitespace

(* ------------------------------- C22 ----------------------------------- *)
\* C22: a response of rag_chat whose run had a failure of the query
\* embedding, the search or the chat completion made none of its calls
\* twice, and its stream is that of a message that reports the failure,
\* ending with the last paragraph of the message.
C22_FailureEndsWithErrorParagraph ==
    (stream.pc = "closed" /\ stream.path = "base"
        /\ stream.failure \in {"embed", "search", "chat"}) =>
        /\ NoRepeats(stream.calls)
        /\ stream.response \in ErrorMessages
        /\ stream.out # << >>
        /\ LET lines == MessageLines(stream.response)
           IN stream.out[Len(stream.out)]
                 = Join([j \in DOMAIN lines[Len(lines)] |->
                            << lines[Len(lines)][j] >>], << "\n" >>)
                       \o ParagraphBreak

(* ------------------------------- C23 ----------------------------------- *)
\* C23: a call of async_get_embeddings with more than 1024 texts makes
\* ceil(N / 1024) batches, and at no time more than 8 of their requests are
\* in flight.
C23_FanOutAtMostEight ==
    (emb.pc # "none" /\ emb.n > 1024) =>
        /\ Len(emb.batches) = (emb.n + 1023) \div 1024
        /\ Cardinality(emb.in_flight) <= 8

(* ------------------------------- C24 ----------------------------------- *)
\* C24: no batch sent to the embedding API has more than 1024 texts, and
\* whatever the order in which the responses arrived, the call returns one
\* vector per text of the list, the i-th being the embedding of the i-th
\* text.
C24_VectorsInInputOrder ==
    /\ \A b \in DOMAIN emb.sent : emb.sent[b] \in 1..1024
    /\ emb.pc = "returned" =>
          /\ Len(emb.returned) = emb.n
          /\ \A i \in 1..emb.n :
                emb.returned[i] = Embedding("k1", ListOfText(emb.n)[i])

\* a call with three batches, the last one short, has returned, and a
\* response arrived before that of an earlier batch
C24_Witness ==
    /\ emb.pc = "returned"
    /\ emb.overtaken
    /\ emb.n = 2 * batch_size + 1
    /\ emb.sent = << batch_size, batch_size, 1 >>

(* ------------------------------- C25 ----------------------------------- *)
\* the n-th smallest number of a set of numbers
Nth(S, n) == CHOOSE j \in S : Cardinality({m \in S : m <= j}) = n

\* C25: for a PDF whose pages can all be read, the parser gives one chunk
\* per page that is not blank, in page order, and the n-th chunk has as
\* page_number and in source_location "Page N" the 1-based position in the
\* PDF of the n-th page that is not blank.
C25_PageNumbersOfOriginal ==
    (parsed.pc = "done" /\ parsed.doc_type = "pdf"
        /\ \A i \in DOMAIN parsed.pages : parsed.pages[i] # Unreadable) =>
        LET written == {i \in DOMAIN parsed.pages : parsed.pages[i] \notin {"", " "}}
        IN /\ Len(parsed.chunks) = Cardinality(written)
           /\ \A n \in DOMAIN parsed.chunks :
                 /\ parsed.chunks[n].content = StripText(parsed.pages[Nth(written, n)])
                 /\ parsed.chunks[n].metadata.page_number = Nth(written, n)
                 /\ parsed.chunks[n].source_location = << "Page", Nth(written, n) >>

(* ------------------------------- C26 ----------------------------------- *)
\* C26: the Excel parser gives one chunk per sheet that has a cell with a
\* value, in sheet order, with source_location "Sheet: <name>", and no
\* chunk for a sheet without cell content.
C26_OneChunkPerNonEmptySheet ==
    (parsed.pc = "done" /\ parsed.doc_type = "excel") =>
        LET filled == {i \in DOMAIN parsed.sheets :
                          \E r \in DOMAIN parsed.sheets[i].cells.values :
                              \E c \in DOMAIN parsed.sheets[i].cells.values[r] :
                                  parsed.sheets[i].cells.values[r][c] # None}
        IN /\ Len(parsed.chunks) = Cardinality(filled)
           /\ \A n \in DOMAIN parsed.chunks :
                 parsed.chunks[n].source_location
                     = << "Sheet", parsed.sheets[Nth(filled, n)].sheet_name >>

(* ------------------------------- C27 ----------------------------------- *)
\* the status delete_document answers with: 503 before initialisation, 200
\* when remove_document_from_global_kb returned True, 400 otherwise
DeleteStatus(initialized, success) ==
    IF ~initialized THEN 503 ELSE IF success THEN 200 ELSE 400

\* the names of the files that have a chunk in chunked_documents
ChunkFilenames(k) ==
    {k.chunked_documents[i].metadata.filename : i \in DOMAIN k.chunked_documents}

\* C27: on an initialised knowledge base a delete of a preloaded document
\* is answered with 400 and a delete of a filename the knowledge base does
\* not hold at all with 404, and neither changes the knowledge base.
C27_DeleteStatusCodes ==
    [][\A p \in Procs :
         (pc[p] = "idle" /\ pc'[p] = "done" /\ req'[p].op = "remove"
             /\ kb.initialized) =>
            LET f == req'[p].filename
                status == DeleteStatus(kb.initialized, loc'[p].result = "ok")
                uploaded == f \in Range(kb.user_uploaded_documents)
                preloaded == f \in Range(kb.documents) /\ ~uploaded
                unknown == /\ f \notin Range(kb.documents) /\ ~uploaded
                           /\ f \notin ChunkFilenames(kb)
            IN /\ preloaded => (status = 400 /\ kb' = kb)
               /\ unknown => (status = 404 /\ kb' = kb)]_vars

(* ------------------------------- C28 ----------------------------------- *)
\* no handler is between the start and the end of a KB operation
Quiet == \A p \in Procs : pc[p] \in {"idle", "done"}

\* C28: when no KB operation is in flight and the knowledge base holds an
\* Index, the texts of the Index are the texts of chunked_documents, no two
\* entries of chunked_documents have the same text and filename, and the
\* chunk_count of get_info is the number of entries of the Index.
C28_IndexMatchesChunks ==
    (Quiet /\ Bound) =>
        LET chunks == kb.chunked_documents
        IN /\ DOMAIN StoredIndex = {chunks[i].text : i \in DOMAIN chunks}
           /\ \A i \in DOMAIN chunks, j \in DOMAIN chunks :
                 (/\ chunks[i].text = chunks[j].text
                  /\ chunks[i].metadata.filename = chunks[j].metadata.filename)
                     => i = j
           /\ Len(chunks) = Cardinality(DOMAIN StoredIndex)

(* ------------------------------- C29 ----------------------------------- *)
\* C29: on a knowledge base initialised without preloaded chunks, an
\* add_document that ends without a failed embedding call has succeeded
\* and its chunks are in the Index of the knowledge base.
C29_UploadOnlyModeAcceptsUpload ==
    [][\A p \in Procs :
         (pc[p] = "idle" /\ pc'[p] = "done" /\ req'[p].op = "add"
             /\ kb.initialized /\ kb.error = "none"
             /\ kb.documents = << >> /\ kb.chunked_documents = << >>) =>
            /\ loc'[p].result = "ok"
            /\ kb'.vector_db # NoSlot
            /\ \A i \in DOMAIN req'[p].docs :
                  req'[p].docs[i] \in DOMAIN vdbs'[kb'.vector_db].entries]_vars

(* ------------------------------- C30 ----------------------------------- *)
\* C30: every filename of user_uploaded_documents has a chunk in
\* chunked_documents, and an add_document that reported success inserted as
\* many chunks as it was given (the chunks_created of the response).
C30_UploadedNamesHaveChunks ==
    /\ \A f \in Range(kb.user_uploaded_documents) : f \in ChunkFilenames(kb)
    /\ \A p \in Procs :
          Succeeded(p, "add") => loc[p].chunks_added = Len(req[p].docs)

====
